---- MODULE Spec2Model ----
(***************************************************************************)
(* Model of dairy_app.py: the DairyDB record store (a SQLite table with an *)
(* AUTOINCREMENT key), the export_pdf report generator and the Streamlit   *)
(* script that is re-executed on every user interaction.                   *)
(*                                                                         *)
(* Text is modelled as a sequence of one-character strings, so that        *)
(* str.strip, str.replace, strftime and SQLite's BINARY text comparison    *)
(* are computed character by character.  Numbers entered in the form are   *)
(* binary floats; the model uses multiples of 1/8, on which float          *)
(* multiplication, addition and "%.2f" formatting are exact.               *)
(***************************************************************************)
EXTENDS Integers, Sequences, FiniteSets, TLC

VARIABLES
    records,    \* rows of table "records" in the database file
    seq,        \* sqlite_sequence entry of the table: largest rowid ever used
    deleted,    \* history: ids of the rows removed so far
    op,         \* the last call or interaction and its arguments
    raised,     \* whether the last store call raised an exception
    ret,        \* what the last get_all_records call returned
    form,       \* current values of the input widgets
    displayed,  \* rows written to the page by the last script run
    msg,        \* st.error / st.success message of the last interaction
    info,       \* st.info message of the last script run
    conns,      \* number of sqlite3 connections opened by the process
    calls,      \* store calls of the last interaction, each with its connection
    download,   \* path offered by st.download_button, or None
    files,      \* state of each file under the working directory
    path,       \* what the last export_pdf call returned
    report,     \* cells and summary lines of the last built document
    stError     \* whether export_pdf called st.error

dbVars  == <<records, seq, deleted>>
apiVars == <<op, raised, ret>>
uiVars  == <<form, displayed, msg, info, conns, calls, download>>
pdfVars == <<files, path, report, stError>>
vars    == <<records, seq, deleted, op, raised, ret, form, displayed, msg,
             info, conns, calls, download, files, path, report, stError>>

(***************************************************************************)
(* Bounds                                                                  *)
(***************************************************************************)
MaxId == 3

MaxRuns == 6

MaxRecs == 2

\* Python None, for the text-valued results; no path or cell is the empty text
None == <<>>

Range(s) == {s[i] : i \in DOMAIN s}

(***************************************************************************)
(* Text                                                                    *)
(***************************************************************************)
Digits == <<"0", "1", "2", "3", "4", "5", "6", "7", "8", "9">>

\* byte value of the characters that occur in stored text
CharCode(c) ==
    CASE c = "\t" -> 9
      [] c = " " -> 32
      [] c = "-" -> 45
      [] c = "0" -> 48 [] c = "1" -> 49 [] c = "2" -> 50 [] c = "3" -> 51
      [] c = "4" -> 52 [] c = "5" -> 53 [] c = "6" -> 54 [] c = "7" -> 55
      [] c = "8" -> 56 [] c = "9" -> 57
      [] c = "A" -> 65 [] c = "B" -> 66
      [] OTHER -> 127

\* SQLite BINARY collation: memcmp of the common prefix, then the length
RECURSIVE TextLess(_, _)
TextLess(a, b) ==
    IF a = <<>> THEN b # <<>>
    ELSE IF b = <<>> THEN FALSE
    ELSE IF CharCode(Head(a)) # CharCode(Head(b))
         THEN CharCode(Head(a)) < CharCode(Head(b))
         ELSE TextLess(Tail(a), Tail(b))

\* the whitespace characters that occur in entered text
Whitespace == {" ", "\t"}

RECURSIVE lstrip(_)
lstrip(s) == IF s # <<>> /\ Head(s) \in Whitespace THEN lstrip(Tail(s)) ELSE s

RECURSIVE rstrip(_)
rstrip(s) ==
    IF s # <<>> /\ s[Len(s)] \in Whitespace THEN rstrip(SubSeq(s, 1, Len(s) - 1)) ELSE s

\* str.strip(): leading and trailing whitespace removed
strip(s) == rstrip(lstrip(s))

\* zero-padded decimal of n in w digits (%Y, %m, %d)
RECURSIVE Pad(_, _)
Pad(n, w) == IF w = 0 THEN <<>> ELSE Append(Pad(n \div 10, w - 1), Digits[(n % 10) + 1])

\* st.date_input(...).strftime("%Y-%m-%d") of the date <<year, month, day>>
strftime(d) == Pad(d[1], 4) \o <<"-">> \o Pad(d[2], 2) \o <<"-">> \o Pad(d[3], 2)

(***************************************************************************)
(* DairyDB                                                                 *)
(***************************************************************************)
Ids(tbl) == {r.id : r \in tbl}

MaxOf(S) == IF S = {} THEN 0 ELSE CHOOSE m \in S : \A x \in S : x <= m

\* variant used to test C4: the key declared without AUTOINCREMENT
NextRowidNoAuto(tbl, sq) == MaxOf(Ids(tbl)) + 1

\* id INTEGER PRIMARY KEY AUTOINCREMENT: one more than the largest rowid the
\* table has ever held, which sqlite_sequence remembers across deletions
NextRowid(tbl, sq) == MaxOf(Ids(tbl) \cup {sq}) + 1

Row(id, name, date, shift, mound, kg, rate) ==
    [id |-> id, name |-> name, date |-> date, shift |-> shift,
     mound |-> mound, kg |-> kg, rate |-> rate]

\* variant used to test C1: mound and kg exchanged in the VALUES tuple
add_record_swapped(tbl, sq, name, date, shift, mound, kg, rate) ==
    [records |-> tbl \cup {Row(NextRowid(tbl, sq), name, date, shift, kg, mound, rate)},
     seq |-> NextRowid(tbl, sq)]

\* INSERT INTO records (name, date, shift, mound, kg, rate) VALUES (...); commit
add_record(tbl, sq, name, date, shift, mound, kg, rate) ==
    [records |-> tbl \cup {Row(NextRowid(tbl, sq), name, date, shift, mound, kg, rate)},
     seq |-> NextRowid(tbl, sq)]

\* the orders in which a SELECT may return the rows of S
Orders(S) ==
    {l \in [1..Cardinality(S) -> S] : \A i, j \in DOMAIN l : i # j => l[i] # l[j]}

DateSorted(l) == \A i, j \in DOMAIN l : i < j => ~TextLess(l[j].date, l[i].date)

\* SELECT * FROM records WHERE name = ? ORDER BY date
\* The only sort key is date; SQLite leaves the order of rows with equal sort
\* keys undefined, so every date-sorted order is a possible result.
get_all_records(tbl, name) ==
    {l \in Orders({r \in tbl : r.name = name}) : DateSorted(l)}

\* variant used to test C2: WHERE id <= ? in place of WHERE id = ?
delete_record_upto(tbl, record_id) == {r \in tbl : r.id > record_id}

\* DELETE FROM records WHERE id = ?; commit
delete_record(tbl, record_id) == {r \in tbl : r.id # record_id}

(***************************************************************************)
(* export_pdf                                                              *)
(***************************************************************************)
NA == <<"N", "/", "A">>

\* decimal digits of the natural number n, without padding
RECURSIVE DecStr(_)
DecStr(n) == IF n < 10 THEN <<Digits[n + 1]>> ELSE Append(DecStr(n \div 10), Digits[(n % 10) + 1])

\* x/den rounded to a whole number of hundredths, exact ties to the even one
\* (the float is exactly x/den, and "%.2f" rounds the exact value half-even)
Hundredths(x, den) ==
    LET q == (x * 100) \div den
        r == (x * 100) % den
    IN  IF 2 * r < den THEN q
        ELSE IF 2 * r > den THEN q + 1
        ELSE IF q % 2 = 0 THEN q ELSE q + 1

\* f"{v:.2f}" of the non-negative float v = x/den
fmt2(x, den) ==
    DecStr(Hundredths(x, den) \div 100) \o <<".">> \o Pad(Hundredths(x, den) % 100, 2)

\* variant used to test C7: the Total cell formatted without the rate test
report_row_numeric_total(rec) ==
    [date  |-> rec.date,
     shift |-> rec.shift,
     mound |-> fmt2(rec.mound, 8),
     kg    |-> fmt2(rec.kg, 8),
     rate  |-> IF rec.rate # 0 THEN fmt2(rec.rate, 8) ELSE NA,
     total |-> fmt2(IF rec.rate # 0 THEN rec.mound * rec.rate ELSE 0, 64)]

\* the six cells of one table row; mound, kg and rate are counted in 1/8, so
\* total = mound * rate is counted in 1/64
report_row(rec) ==
    [date  |-> rec.date,
     shift |-> rec.shift,
     mound |-> fmt2(rec.mound, 8),
     kg    |-> fmt2(rec.kg, 8),
     rate  |-> IF rec.rate # 0 THEN fmt2(rec.rate, 8) ELSE NA,
     total |-> IF rec.rate # 0
               THEN fmt2(IF rec.rate # 0 THEN rec.mound * rec.rate ELSE 0, 64)
               ELSE NA]

RECURSIVE SumMound(_)
SumMound(recs) == IF recs = <<>> THEN 0 ELSE Head(recs).mound + SumMound(Tail(recs))

RECURSIVE SumKg(_)
SumKg(recs) == IF recs = <<>> THEN 0 ELSE Head(recs).kg + SumKg(Tail(recs))

\* no document was built
NoDocument == [name |-> None, rows |-> <<>>, total_mound |-> None, total_kg |-> None]

\* the document built before it is saved: name line, table rows, summary lines
build_document(name, recs) ==
    [name        |-> name,
     rows        |-> [i \in 1..Len(recs) |-> report_row(recs[i])],
     total_mound |-> fmt2(SumMound(recs), 8),
     total_kg    |-> fmt2(SumKg(recs), 8)]

\* s.replace(old, new) for one-character old and new
RECURSIVE replace(_, _, _)
replace(s, old, new) ==
    IF s = <<>> THEN <<>>
    ELSE <<IF Head(s) = old THEN new ELSE Head(s)>> \o replace(Tail(s), old, new)

output_folder == <<"e", "x", "p", "o", "r", "t", "s">>

Suffix == <<"_", "d", "a", "i", "r", "y", ".", "p", "d", "f">>

\* os.path.join(a, b): an absolute b replaces a
path_join(a, b) ==
    IF b # <<>> /\ Head(b) = "/" THEN b ELSE a \o <<"/">> \o b

\* variant used to test C9: the file name built without .replace
export_path_unreplaced(name) == path_join(output_folder, name \o Suffix)

\* file_name = f"{name}_dairy.pdf".replace(" ", "_"); os.path.join("exports", file_name)
export_path(name) == path_join(output_folder, replace(name \o Suffix, " ", "_"))

\* Outcomes of export_pdf(name, recs) on the files fs.  An exception anywhere
\* in the try block is reported with st.error and None is returned:
\*   "build": raised while the document is built, nothing is written;
\*   "open":  raised by makedirs or when pdf.output opens the target;
\*   "write": raised after pdf.output has opened (and truncated) the target
\*            and written part of the document;
\*   "ok":    the whole document is written and the path returned.
export_pdf(name, recs, fs) ==
    { [files   |-> fs,
       path    |-> None,
       report  |-> NoDocument,
       stError |-> TRUE,
       stage   |-> "build"],
      [files   |-> fs,
       path    |-> None,
       report  |-> build_document(name, recs),
       stError |-> TRUE,
       stage   |-> "open"],
      [files   |-> [fs EXCEPT ![export_path(name)] = "partial"],
       path    |-> None,
       report  |-> build_document(name, recs),
       stError |-> TRUE,
       stage   |-> "write"],
      [files   |-> [fs EXCEPT ![export_path(name)] = "complete"],
       path    |-> export_path(name),
       report  |-> build_document(name, recs),
       stError |-> FALSE,
       stage   |-> "ok"] }

(***************************************************************************)
(* Inputs                                                                  *)
(***************************************************************************)
NameAB   == <<"A", " ", "B">>

NameTab  == <<"A", "\t", "B">>

NameBlank == <<" ", "\t">>

NameAbs  == <<"/", "A">>

May9  == <<2024, 5, 9>>

May10 == <<2024, 5, 10>>

Entry(name, d, shift, mound, kg, rate) ==
    [name |-> name, date |-> strftime(d), shift |-> shift,
     mound |-> mound, kg |-> kg, rate |-> rate]

\* widget values when nothing has been entered: empty name, today, first
\* shift, 0.0 for the three numbers
DefaultForm == Entry(<<>>, May10, "Morning", 0, 0, 0)

\* 10.0 mound / 900.0 kg without a rate, 5.0 mound / 450.0 kg at 20.5,
\* and 0.125 / 0.125 at 0.125, whose cells need rounding
FilledForms ==
    { Entry(NameAB, May10, "Morning", 80, 7200, 0),
      Entry(NameAB, May10, "Evening", 40, 3600, 164),
      Entry(NameAB, May9, "Morning", 1, 2, 1),
      Entry(NameTab, May10, "Morning", 80, 7200, 0) }

Forms == {DefaultForm, Entry(NameBlank, May10, "Morning", 80, 7200, 0)} \cup FilledForms

Names == {f.name : f \in Forms}

NoFiles == [p \in {export_path(n) : n \in Names \cup {NameAbs}} |-> "absent"]

NoOp == [kind |-> "none", args |-> <<>>]

(***************************************************************************)
(* Spec: the DairyDB methods called in any order                           *)
(***************************************************************************)
Init ==
    /\ records = {}
    /\ seq = 0
    /\ deleted = {}
    /\ op = NoOp
    /\ raised = FALSE
    /\ ret = <<>>
    /\ form = DefaultForm
    /\ displayed = <<>>
    /\ msg = "none"
    /\ info = "Please enter a customer name to see records."
    /\ conns = 1
    /\ calls = <<>>
    /\ download = None
    /\ files = NoFiles
    /\ path = None
    /\ report = NoDocument
    /\ stError = FALSE

AddRecord ==
    \E e \in Forms :
        /\ seq < MaxId
        /\ LET a == add_record(records, seq, e.name, e.date, e.shift, e.mound, e.kg, e.rate)
           IN  /\ records' = a.records
               /\ seq' = a.seq
        /\ op' = [kind |-> "add_record", args |-> e]
        /\ raised' = FALSE
        /\ UNCHANGED <<deleted, ret, uiVars, pdfVars>>

GetAllRecords ==
    \E n \in Names :
        /\ ret' \in get_all_records(records, n)
        /\ op' = [kind |-> "get_all_records", args |-> n]
        /\ raised' = FALSE
        /\ UNCHANGED <<dbVars, uiVars, pdfVars>>

DeleteRecord ==
    \E id \in 1..(MaxId + 1) :
        /\ records' = delete_record(records, id)
        /\ deleted' = deleted \cup (Ids(records) \ Ids(records'))
        /\ op' = [kind |-> "delete_record", args |-> id]
        /\ raised' = FALSE
        /\ UNCHANGED <<seq, ret, uiVars, pdfVars>>

Next == AddRecord \/ GetAllRecords \/ DeleteRecord

Spec == Init /\ [][Next]_vars

(***************************************************************************)
(* The Streamlit script.  Every interaction re-executes it from the top,   *)
(* and "db = DairyDB()" at the top opens a connection in each execution.   *)
(***************************************************************************)
Call(fn, conn) == [fn |-> fn, conn |-> conn]

\* variant used to test C5: 'if not name' in place of 'if not name.strip()'
add_entry_no_strip(tbl, sq, f, fails) ==
    IF f.name = <<>>
    THEN [records |-> tbl, seq |-> sq, msg |-> "Please enter a customer name.",
          called |-> FALSE]
    ELSE IF fails
    THEN [records |-> tbl, seq |-> sq, msg |-> "Failed to add record", called |-> TRUE]
    ELSE [records |-> add_record(tbl, sq, f.name, f.date, f.shift, f.mound, f.kg, f.rate).records,
          seq     |-> add_record(tbl, sq, f.name, f.date, f.shift, f.mound, f.kg, f.rate).seq,
          msg     |-> "Record added successfully.",
          called  |-> TRUE]

\* if st.button("Add Entry"): name check, then add_record inside try/except;
\* fails: add_record raises
add_entry(tbl, sq, f, fails) ==
    IF strip(f.name) = <<>>
    THEN [records |-> tbl, seq |-> sq, msg |-> "Please enter a customer name.",
          called |-> FALSE]
    ELSE IF fails
    THEN [records |-> tbl, seq |-> sq, msg |-> "Failed to add record", called |-> TRUE]
    ELSE [records |-> add_record(tbl, sq, f.name, f.date, f.shift, f.mound, f.kg, f.rate).records,
          seq     |-> add_record(tbl, sq, f.name, f.date, f.shift, f.mound, f.kg, f.rate).seq,
          msg     |-> "Record added successfully.",
          called  |-> TRUE]

\* records = db.get_all_records(name) if name else []
fetch_records(tbl, name) == IF name # <<>> THEN get_all_records(tbl, name) ELSE {<<>>}

fetch_calls(name, conn) == IF name # <<>> THEN <<Call("get_all_records", conn)>> ELSE <<>>

\* the st.info of the else branch
info_message(recs, name) ==
    IF recs # <<>> THEN "none"
    ELSE IF name # <<>> THEN "No records found for this customer."
    ELSE "Please enter a customer name to see records."

\* variant used to test C10: no st.experimental_rerun() after the delete
delete_entry_no_rerun(tbl, fetched, name, rec_id, fails, conn) ==
    IF fails
    THEN {[records |-> tbl, displayed |-> fetched, msg |-> "Failed to delete record",
           runs |-> 1,
           calls |-> fetch_calls(name, conn) \o <<Call("delete_record", conn)>>]}
    ELSE {[records |-> delete_record(tbl, rec_id), displayed |-> fetched, msg |-> "none",
           runs |-> 1,
           calls |-> fetch_calls(name, conn) \o <<Call("delete_record", conn)>>]}

\* if st.button(f"Delete Entry {rec_id}"): delete_record, then
\* st.experimental_rerun() abandons this execution and starts the script
\* again, with a new connection and a new fetch; fails: delete_record raises,
\* the error is shown and the loop goes on over the fetched rows
\* (the RerunException raised by st.experimental_rerun derives from
\* BaseException, so the 'except Exception' clause does not stop it)
delete_entry(tbl, fetched, name, rec_id, fails, conn) ==
    IF fails
    THEN {[records |-> tbl, displayed |-> fetched, msg |-> "Failed to delete record",
           runs |-> 1,
           calls |-> fetch_calls(name, conn) \o <<Call("delete_record", conn)>>]}
    ELSE {[records |-> delete_record(tbl, rec_id), displayed |-> l, msg |-> "none",
           runs |-> 2,
           calls |-> fetch_calls(name, conn) \o <<Call("delete_record", conn)>>
                     \o fetch_calls(name, conn + 1)] :
            l \in fetch_records(delete_record(tbl, rec_id), name)}

\* a widget value changes: the script runs with no button pressed
Rerun ==
    \E f \in Forms :
    \E l \in fetch_records(records, f.name) :
        /\ conns < MaxRuns
        /\ conns' = conns + 1
        /\ form' = f
        /\ displayed' = l
        /\ msg' = "none"
        /\ info' = info_message(l, f.name)
        /\ calls' = fetch_calls(f.name, conns + 1)
        /\ download' = None
        /\ op' = [kind |-> "rerun", args |-> <<>>]
        /\ UNCHANGED <<dbVars, raised, ret, pdfVars>>

ClickAdd ==
    \E fails \in BOOLEAN :
        /\ conns < MaxRuns
        /\ seq < MaxId
        /\ LET a == add_entry(records, seq, form, fails)
           IN  /\ records' = a.records
               /\ seq' = a.seq
               /\ msg' = a.msg
               /\ calls' = (IF a.called THEN <<Call("add_record", conns + 1)>> ELSE <<>>)
                           \o fetch_calls(form.name, conns + 1)
               /\ \E l \in fetch_records(a.records, form.name) :
                      /\ displayed' = l
                      /\ info' = info_message(l, form.name)
        /\ conns' = conns + 1
        /\ download' = None
        /\ op' = [kind |-> "Add Entry", args |-> [fails |-> fails]]
        /\ UNCHANGED <<deleted, raised, ret, form, pdfVars>>

ClickDelete ==
    \E k \in DOMAIN displayed, fails \in BOOLEAN :
    \E fetched \in fetch_records(records, form.name) :
    \E d \in delete_entry(records, fetched, form.name, displayed[k].id, fails, conns + 1) :
        /\ conns + d.runs <= MaxRuns
        /\ conns' = conns + d.runs
        /\ records' = d.records
        /\ deleted' = deleted \cup (Ids(records) \ Ids(d.records))
        /\ displayed' = d.displayed
        /\ msg' = d.msg
        /\ info' = info_message(d.displayed, form.name)
        /\ calls' = d.calls
        /\ download' = None
        /\ op' = [kind |-> "Delete Entry", args |-> [id |-> displayed[k].id, fails |-> fails]]
        /\ UNCHANGED <<seq, raised, ret, form, pdfVars>>

ClickExport ==
    \E l \in fetch_records(records, form.name) :
    \E o \in export_pdf(form.name, l, files) :
        /\ displayed # <<>>
        /\ conns < MaxRuns
        /\ conns' = conns + 1
        /\ displayed' = l
        /\ msg' = "none"
        /\ info' = info_message(l, form.name)
        /\ calls' = fetch_calls(form.name, conns + 1)
        /\ files' = o.files
        /\ path' = o.path
        /\ report' = o.report
        /\ stError' = o.stError
        /\ download' = o.path
        /\ op' = [kind |-> "Export PDF",
                  args |-> [name |-> form.name, records |-> l, stage |-> o.stage]]
        /\ UNCHANGED <<dbVars, raised, ret, form>>

NextApp == Rerun \/ ClickAdd \/ ClickDelete \/ ClickExport

SpecApp == Init /\ [][NextApp]_vars

(***************************************************************************)
(* Properties of the store                                                 *)
(***************************************************************************)
SameFields(r, e) ==
    /\ r.name = e.name /\ r.date = e.date /\ r.shift = e.shift
    /\ r.mound = e.mound /\ r.kg = e.kg /\ r.rate = e.rate

\* C1: after add_record, get_all_records for the submitted name contains
\* exactly one record that was not there before; it carries the submitted
\* field values and an id no stored record had; every record that was there
\* before is still there, unchanged.
C1_AddThenList ==
    [][op'.kind = "add_record" =>
        \A l0 \in get_all_records(records, op'.args.name) :
        \A l1 \in get_all_records(records', op'.args.name) :
            LET new == {i \in DOMAIN l1 : l1[i] \notin Range(l0)}
            IN  /\ Cardinality(new) = 1
                /\ \A i \in new : /\ SameFields(l1[i], op'.args)
                                  /\ l1[i].id \notin Ids(records)
                /\ Range(l0) \subseteq Range(l1)
                /\ Len(l1) = Len(l0) + 1
                /\ records \subseteq records']_vars

C1_Witness ==
    /\ op.kind = "add_record"
    /\ Cardinality({r \in records : r.name = op.args.name}) >= 2
    /\ \E r \in records : r.name # op.args.name

\* C2: after delete_record(id) no get_all_records result contains a record
\* with that id; when no record has that id the call raises nothing and the
\* stored records are exactly the same; every record with another id is
\* unaltered.
C2_DeleteFrame ==
    [][op'.kind = "delete_record" =>
        /\ \A n \in Names : \A l \in get_all_records(records', n) :
               \A i \in DOMAIN l : l[i].id # op'.args
        /\ (op'.args \notin Ids(records) => ~raised' /\ records' = records)
        /\ \A r \in records : r.id # op'.args => r \in records'
        /\ records' \subseteq records]_vars

C2_Witness ==
    /\ op.kind = "delete_record"
    /\ op.args \in deleted
    /\ records # {}

\* insertion order of two stored rows: ids are handed out in increasing order
InsertedBefore(r1, r2) == r1.id < r2.id

\* C3: get_all_records returns the customer's records sorted non-decreasing
\* by date, and records with equal dates in the order of their insertion.
C3_SortedStable ==
    op.kind = "get_all_records" =>
        \A i, j \in DOMAIN ret : i < j =>
            /\ ~TextLess(ret[j].date, ret[i].date)
            /\ (ret[i].date = ret[j].date => InsertedBefore(ret[i], ret[j]))

\* C4: no two stored records share an id, and the id of a deleted record is
\* never the id of a stored record again.
C4_UniqueNeverReused ==
    /\ \A r1, r2 \in records : r1.id = r2.id => r1 = r2
    /\ Ids(records) \cap deleted = {}

\* a record was created right after the record with the largest id was deleted
C4_Witness ==
    /\ op.kind = "add_record"
    /\ seq \in Ids(records)
    /\ (seq - 1) \in deleted

(***************************************************************************)
(* SpecPdf: export_pdf applied to any name and any list of fetched rows    *)
(***************************************************************************)
PdfRows ==
    {Row(1, f.name, f.date, f.shift, f.mound, f.kg, f.rate) :
        f \in {g \in FilledForms : g.name = NameAB}}

PdfNames == {NameAB, NameTab, NameAbs}

PdfLists == UNION {[1..k -> PdfRows] : k \in 0..MaxRecs}

ExportPdf ==
    \E n \in PdfNames, recs \in PdfLists :
    \E o \in export_pdf(n, recs, files) :
        /\ files' = o.files
        /\ path' = o.path
        /\ report' = o.report
        /\ stError' = o.stError
        /\ op' = [kind |-> "export_pdf",
                  args |-> [name |-> n, records |-> recs, stage |-> o.stage]]
        /\ UNCHANGED <<dbVars, raised, ret, uiVars>>

NextPdf == ExportPdf

SpecPdf == Init /\ [][NextPdf]_vars

(***************************************************************************)
(* Properties of export_pdf                                                *)
(***************************************************************************)
Exported == op.kind \in {"export_pdf", "Export PDF"}

\* C6: a failed export returns no path and leaves no partial file at the
\* target path; a file at the target path is always a complete document.
C6_AllOrNothing ==
    Exported =>
        /\ (op.args.stage # "ok" => path = None)
        /\ files[export_path(op.args.name)] \in {"absent", "complete"}

IsDigit(c) == CharCode(c) >= 48 /\ CharCode(c) <= 57

RECURSIVE ParseNat(_)
ParseNat(t) == IF t = <<>> THEN 0 ELSE 10 * ParseNat(SubSeq(t, 1, Len(t) - 1)) + (CharCode(t[Len(t)]) - 48)

\* t is a decimal numeral with exactly two decimals
TwoDecimalNumeral(t) ==
    /\ Len(t) >= 4
    /\ t[Len(t) - 2] = "."
    /\ \A i \in DOMAIN t : i # Len(t) - 2 => IsDigit(t[i])

\* t is x/den written to two decimals: a numeral within half a hundredth
ShowsToTwoDecimals(t, x, den) ==
    /\ TwoDecimalNumeral(t)
    /\ LET h == ParseNat(SelectSeq(t, IsDigit))
           d == 100 * x - h * den
       IN  2 * d <= den /\ 2 * d >= 0 - den

\* C7: for every record passed to export_pdf, in input order: a rate of 0
\* gives "N/A" in the Rate and the Total cell, a rate above 0 gives the rate
\* and mound x rate, each to two decimals; a zero-rate row has no numeric total.
C7_RateAndTotalCells ==
    (Exported /\ report # NoDocument) =>
        /\ Len(report.rows) = Len(op.args.records)
        /\ \A i \in DOMAIN report.rows :
            LET rec == op.args.records[i]
                row == report.rows[i]
            IN  /\ row.date = rec.date /\ row.shift = rec.shift
                /\ (rec.rate = 0 =>
                        /\ row.rate = NA /\ row.total = NA
                        /\ ~TwoDecimalNumeral(row.total))
                /\ (rec.rate > 0 =>
                        /\ ShowsToTwoDecimals(row.rate, rec.rate, 8)
                        /\ ShowsToTwoDecimals(row.total, rec.mound * rec.rate, 64))

\* a report with a zero-rate row and a priced row whose cells are rounded
C7_Witness ==
    /\ op.kind = "export_pdf"
    /\ report # NoDocument
    /\ \E i, j \in DOMAIN report.rows :
        /\ op.args.records[i].rate = 0 /\ report.rows[i].total = NA
        /\ op.args.records[j].rate = 1 /\ op.args.records[j].mound = 1
        /\ report.rows[j].rate = <<"0", ".", "1", "2">>
        /\ report.rows[j].total = <<"0", ".", "0", "2">>

\* "exports" joined with the name followed by "_dairy.pdf", each character
\* of W replaced by an underscore
PathReplacing(W, name) ==
    LET f == [i \in 1..(Len(name) + Len(Suffix)) |->
                 IF i > Len(name) THEN Suffix[i - Len(name)]
                 ELSE IF name[i] \in W THEN "_" ELSE name[i]]
    IN  IF f[1] = "/" THEN f ELSE output_folder \o <<"/">> \o f

\* C9 as stated: the path export_pdf returns is "exports" joined with the
\* name, every whitespace character replaced by an underscore, and "_dairy.pdf".
C9_WhitespacePath ==
    (Exported /\ path # None) => path = PathReplacing(Whitespace, op.args.name)

\* C9 as amended: the path export_pdf returns depends on the name alone: it
\* is "exports" joined with the name, every space character replaced by an
\* underscore, and "_dairy.pdf"; a completed export returns it.
C9_SpacePath ==
    Exported =>
        /\ (path # None => path = PathReplacing({" "}, op.args.name))
        /\ (op.args.stage = "ok" => path # None)

C9_Witness ==
    /\ op.kind = "export_pdf"
    /\ op.args.name = NameAB
    /\ path = <<"e", "x", "p", "o", "r", "t", "s", "/", "A", "_", "B">> \o Suffix

(***************************************************************************)
(* Properties of the script                                                *)
(***************************************************************************)
Blank(name) == \A i \in DOMAIN name : name[i] \in Whitespace

\* C5: Add Entry with an empty or all-whitespace name shows the validation
\* error, does not call add_record and leaves the stored records as they were.
C5_BlankNameRejected ==
    [][(op'.kind = "Add Entry" /\ Blank(form.name)) =>
        /\ msg' = "Please enter a customer name."
        /\ \A i \in DOMAIN calls' : calls'[i].fn # "add_record"
        /\ records' = records
        /\ seq' = seq]_vars

C5_Witness ==
    /\ op.kind = "Add Entry"
    /\ form.name = NameBlank
    /\ msg = "Please enter a customer name."
    /\ records # {}

\* C8: the process opens at most one store connection, and every store call
\* of every interaction uses it.
C8_SingleConnection ==
    /\ conns <= 1
    /\ \A i \in DOMAIN calls : calls[i].conn = 1

\* C10: with a non-empty name, the rows displayed at the end of an
\* interaction are get_all_records(name) on the store as the interaction
\* leaves it; a record added by a successful Add Entry is displayed in the
\* same interaction, and a record removed by a successful Delete Entry is not
\* displayed when the interaction ends.
C10_ReadAfterWrite ==
    [][(op'.kind \in {"rerun", "Add Entry", "Delete Entry", "Export PDF"}
            /\ form'.name # <<>>) =>
        /\ displayed' \in get_all_records(records', form'.name)
        /\ (msg' = "Record added successfully." =>
                \E i \in DOMAIN displayed' :
                    /\ displayed'[i] \notin records
                    /\ SameFields(displayed'[i], form'))
        /\ ((op'.kind = "Delete Entry" /\ ~op'.args.fails) =>
                /\ op'.args.id \in Ids(records)
                /\ \A i \in DOMAIN displayed' : displayed'[i].id # op'.args.id)]_vars

\* a Delete Entry removed one of several displayed rows
C10_Witness ==
    /\ op.kind = "Delete Entry"
    /\ ~op.args.fails
    /\ op.args.id \in deleted
    /\ displayed # <<>>

====
